---- MODULE Spec2Model ----
(***************************************************************************)
(* Conversation relay: one LLM session (a provider adapter extending       *)
(* BaseLLMService) driven by a transport.  The voice transport calls       *)
(* streamChatCompletion and signals interruptions; the messaging           *)
(* controller calls chatCompletion.  JavaScript runs one callback at a     *)
(* time, so every action below is the code executed between two            *)
(* suspension points (an await on the backend, on a stream chunk or on a   *)
(* tool handler doing I/O).                                                *)
(***************************************************************************)
EXTENDS Integers, Sequences, FiniteSets, TLC

\* ---------------------------------------------------------------- bounds
MaxTurns == 2        \* external calls (turns) submitted to the session
MaxRequests == 3     \* backend requests the session may issue
MaxChunks == 2       \* text chunks the backend sends to the session
MaxToolRounds == 1   \* backend responses that ask for tool calls
MaxTools == 2        \* tool calls the backend issues in one round
MaxInterrupts == 1   \* interruption signals of the transport
MaxInbound == 3      \* inbound messages of the conversation (webhook calls)
MaxSessions == 3     \* sessions the controller may create for the conversation
MaxEvictions == 1    \* participant-removed / conversation-removed events
MaxHandoffEvents == 2
MaxServices == 2     \* LLM services the factory creates side by side
MaxServiceTurns == 2 \* turns run on one of these services

\* ------------------------------------------------------------ vocabulary
Providers == {"openai-chat-completions", "openai-responses", "openai-agents"}
Modes == {"voice", "messaging"}

CC == "openai-chat-completions"
RS == "openai-responses"
AG == "openai-agents"

\* content: null of an assistant message that only carries tool calls
Null == "<null>"

Msg(role, content) ==
  [role |-> role, content |-> content, toolCalls |-> <<>>, toolCallId |-> 0]

AssistantToolCalls(content, tcs) ==
  [role |-> "assistant", content |-> content, toolCalls |-> tcs, toolCallId |-> 0]

ToolResult(id, content) ==
  [role |-> "tool", content |-> content, toolCalls |-> <<>>, toolCallId |-> id]

\* Responses API history item {type: "function_call", call_id, name, arguments}
FunctionCall(tc) ==
  [role |-> "function_call", content |-> Null, toolCalls |-> <<tc>>, toolCallId |-> 0]

\* this._interruptionMessage === undefined
NoMsg == [role |-> "none", content |-> "", toolCalls |-> <<>>, toolCallId |-> 0]

Ev(type, payload) == [type |-> type, payload |-> payload]

\* the text of the k-th chunk of a stream, and of the user's c-th message
ChunkText(k) == IF k = 1 THEN "Hel" ELSE IF k = 2 THEN "lo " ELSE "world"
UserText(c) == IF c = 1 THEN "What is my balance?" ELSE "And now?"
UserMsg(c) == Msg("user", UserText(c))
InterruptText == "The user interrupted you"
StopContents == {""}
FinalText == "Done."

\* msg.content || ""
OrEmpty(content) == IF content = Null THEN "" ELSE content

\* ------------------------------------------------------- message formats
convertToChatCompletionsFormat(msgs) ==
  LET one(m) ==
        IF m.role = "tool" /\ m.toolCallId # 0
          THEN ToolResult(m.toolCallId, OrEmpty(m.content))
        ELSE IF m.role = "assistant" /\ m.toolCalls # <<>>
          THEN AssistantToolCalls(m.content, m.toolCalls)
        ELSE Msg(m.role, OrEmpty(m.content))
  IN [i \in 1..Len(msgs) |-> one(msgs[i])]

convertToResponsesFormat(msgs) ==
  LET one(m) ==
        IF m.role = "tool" /\ m.toolCallId # 0
          THEN ToolResult(m.toolCallId, OrEmpty(m.content))
        ELSE Msg(m.role, OrEmpty(m.content))
  IN [i \in 1..Len(msgs) |-> one(msgs[i])]

\* Agents: for (msg of messages) if (msg.content) history.push({role, content})
agentsHistoryItems(msgs) ==
  LET keep(m) == m.content # Null /\ m.content # ""
      kept == SelectSeq(msgs, keep)
  IN [i \in 1..Len(kept) |-> Msg(kept[i].role, kept[i].content)]

\* ------------------------------------------------------------ the state
VARIABLES
  provider,              \* the adapter the factory instantiated
  mode,                  \* the transport that owns the session
  setupDone,             \* setup() has been called
  messages,              \* the transcript (messages / conversationHistory)
  userInterrupted,       \* BaseLLMService._userInterrupted
  streamActive,          \* BaseLLMService._streamActive
  streamDepth,           \* BaseLLMService._streamDepth
  shouldEndAfterStream,  \* BaseLLMService._shouldEndAfterStream
  interruptionMessage,   \* _interruptionMessage
  calls,                 \* the external calls: position, locals, emitted events
  requests,              \* backend requests issued so far
  chunksSent,            \* text chunks the backend has sent so far
  toolRounds,            \* backend responses with tool calls so far
  interrupts,            \* interruption signals so far
  roundBudget,           \* tool-call responses the backend gives in this session
  conversationSessions,  \* the controller's registry entry of the conversation:
                         \* the session stored under its ConversationSid, 0 if none
  controller,            \* the controller's sessions and webhook handlers
  services,              \* the services created by createLLMService side by
                         \* side, and the process environment they share
  handoff,               \* a conversation being handed off: its attributes and
                         \* webhooks, and the runs of the handoff listener
  retry,                 \* one call of withRetry
  pendingWhileActive     \* the pending interruption message was supplied while
                         \* a stream was active (history)

vars == <<provider, mode, setupDone, messages, userInterrupted, streamActive,
          streamDepth, shouldEndAfterStream, interruptionMessage, calls,
          requests, chunksSent, toolRounds, interrupts, roundBudget,
          conversationSessions, controller, services, handoff, retry,
          pendingWhileActive>>

Turns == 1..MaxTurns

Greeting == Msg("assistant", "Hello! How can I help you today?")

\* the transcript the constructor builds
InitialMessages(p) ==
  IF p = CC
    THEN <<Msg("system", "systemPrompt"), Msg("system", "additionalContext"), Greeting>>
    ELSE <<Greeting>>

IdleCall ==
  [pc |-> "idle",        \* idle, stream, tools, drain, syncRequest, done
   frame |-> FALSE,      \* a streamChatCompletion frame is open (finally pending)
   req |-> 0,            \* number of the backend request being awaited
   chunks |-> 0,         \* text chunks received in the current stream
   llmResponse |-> "",   \* llmResponse / fullResponse
   content |-> Null,     \* message.content of a non-streaming tool-call response
   toolCalls |-> <<>>,   \* toolCalls / pendingToolCalls
   results |-> <<>>,     \* settled results of the Promise.all, by position
   doneOrder |-> <<>>,   \* positions in the order the tool promises settled
                         \* (of the round started last)
   lastTools |-> <<>>,   \* the tool calls of the round resubmitted last
   rounds |-> 0,         \* tool rounds this call has resubmitted
   rejected |-> FALSE,   \* the call returned at the stream-already-active guard
   failed |-> FALSE,     \* the call ended with a backend error
   events |-> <<>>]      \* events emitted by this call, in order, and the
                         \* interruption signals that arrived during it

Inbound == 1..MaxInbound
SessionIds == 1..MaxSessions

\* config.twilio.conversationServiceSid
ConversationServiceSid == "IS0001"

\* the Author of an inbound webhook: the customer, the two values the handler
\* tests for, and the author the controller posts its own messages with
BotAuthor == "assistant"
Authors == {"customer", "system", ConversationServiceSid, BotAuthor}

\* Author === 'system' || Author === config.twilio.conversationServiceSid
IgnoredAuthor(author) == author = "system" \/ author = ConversationServiceSid

\* the controller before any webhook call
InitialController ==
  [created |-> 0,                               \* sessions created so far
   setups |-> [s \in SessionIds |-> 0],         \* setup() calls per session
   ended |-> {},        \* sessions whose endInteraction listener has fired
   evicted |-> {},      \* sessions deleted by a conversation event
   evictions |-> 0,     \* conversation events that deleted the entry so far
   sent |-> <<>>,       \* sessions whose replies were sent to the conversation
   listeners |-> [s \in SessionIds |-> 0],   \* listeners per event of session s
   completes |-> 0,     \* chatCompletion:complete events emitted so far
   handoffEvents |-> 0,     \* humanAgentHandoff events emitted so far
   handoffsHandled |-> 0,   \* runs of the humanAgentHandoff listener so far
   inbound |-> [h \in Inbound |->
                  [pc |-> "idle", llmService |-> 0, author |-> "none"]]]

Services == 1..MaxServices
ApiKeys == {"sk-1", "sk-2"}
NoKey == "<none>"

NoService ==
  [state |-> "none",          \* none, live, removed
   provider |-> CC,
   openaiKey |-> NoKey,       \* the key of this.openai (Chat Completions, Responses)
   setupDone |-> FALSE,
   messages |-> 0,            \* length of the service's transcript
   userInterrupted |-> FALSE,
   turns |-> 0,
   keyUsed |-> NoKey]         \* the key its last backend request was sent with

\* no service yet; OPENAI_API_KEY as the process was started
InitialServices ==
  [env |-> "sk-env",          \* process.env.OPENAI_API_KEY
   sdkKey |-> NoKey,          \* the key of the Agents SDK's default client, once built
   instances |-> [s \in Services |-> NoService]]

\* the listeners of the humanAgentHandoff events of one conversation
HandoffListeners == 1..MaxHandoffEvents

\* a webhook of the conversation is the bot's if its URL contains NGROK_DOMAIN
BotWebhook == "WH-bot"
IsBotWebhook(w) == w = BotWebhook

\* a listener that has not been called
IdleListener ==
  [pc |-> "idle",          \* idle, check, create, list, remove, attrs, update,
                           \* and the ends: ignored, failed, done
   interaction |-> 0,      \* interaction.sid, 0 before the interaction exists
   listed |-> {},          \* bot webhooks of the listing still to be removed
   removed |-> 0,          \* webhooks this run has removed
   webhookError |-> FALSE, \* removeBotWebhooks caught an error
   error |-> "none",       \* the call whose failure ended the run
   snapshot |-> [handedOff |-> FALSE, interactionSid |-> 0],
                           \* the attributes fetched for the update
   marked |-> FALSE]       \* this run has written handedOff

\* a conversation served by the bot, before any handoff
InitialHandoff ==
  [ngrokDomain |-> TRUE,   \* config.ngrok.domain is set
   attributes |-> [handedOff |-> FALSE, interactionSid |-> 0],
   interactions |-> 0,     \* Flex interactions created so far
   webhooks |-> {BotWebhook, "WH-flex"},
   listeners |-> [p \in HandoffListeners |-> IdleListener]]

\* DEFAULT_OPTIONS of withRetry
DEFAULT_OPTIONS ==
  [maxRetries |-> 3, initialDelayMs |-> 1000, maxDelayMs |-> 10000,
   backoffMultiplier |-> 2,
   retryableErrors |-> {"ECONNRESET", "ETIMEDOUT", "ENOTFOUND", "ECONNREFUSED",
                        "429", "500", "502", "503", "504"}]

\* the values a caller passes for the numeric options
OptionValues ==
  [maxRetries |-> 0..2, initialDelayMs |-> {1000, 3000},
   maxDelayMs |-> {2000}, backoffMultiplier |-> {1, 2}]

\* the options objects: any subset of the numeric options, each with one of
\* its values ({} and {maxRetries: 2} are the ones the controller passes)
RetryOptions ==
  LET values == UNION {OptionValues[k] : k \in DOMAIN OptionValues}
  IN UNION {{o \in [D -> values] : \A k \in D : o[k] \in OptionValues[k]} :
              D \in SUBSET DOMAIN OptionValues}

\* const opts = { ...DEFAULT_OPTIONS, ...options }
MergeOptions(options) ==
  [k \in DOMAIN DEFAULT_OPTIONS |->
     IF k \in DOMAIN options THEN options[k] ELSE DEFAULT_OPTIONS[k]]

NoError == [code |-> "none", status |-> 0, message |-> <<>>]

\* withRetry(operation, options) before its first statement
NewRetry(options) ==
  [opts |-> MergeOptions(options),
   pc |-> "idle",        \* idle, operation, sleep, returned, threw
   attempt |-> 0,
   delay |-> 0,
   invocations |-> 0,    \* calls of operation()
   waits |-> <<>>,       \* the arguments of the sleep() calls, in order
   errors |-> <<>>,      \* the errors of the failed attempts, in order
   thrown |-> NoError]   \* the error withRetry rejected with

\* withRetry(operation) with the default options, not yet called
InitialRetry == NewRetry(<<>>)

Init ==
  /\ provider \in Providers
  /\ mode \in Modes
  /\ setupDone = FALSE
  /\ messages = InitialMessages(provider)
  /\ userInterrupted = FALSE
  /\ streamActive = FALSE
  /\ streamDepth = 0
  /\ shouldEndAfterStream = FALSE
  /\ interruptionMessage = NoMsg
  /\ calls = [c \in Turns |-> IdleCall]
  /\ requests = 0
  /\ chunksSent = 0
  /\ toolRounds = 0
  /\ interrupts = 0
  /\ roundBudget = MaxToolRounds
  /\ conversationSessions = 0
  /\ controller = InitialController
  /\ services = InitialServices
  /\ handoff = InitialHandoff
  /\ retry = InitialRetry
  /\ pendingWhileActive = FALSE

\* ------------------------------------------------------------- setup()
setup ==
  /\ ~setupDone
  /\ setupDone' = TRUE
  /\ messages' = Append(messages, Msg("system", "Call Context"))
  /\ UNCHANGED <<provider, mode, userInterrupted, streamActive, streamDepth,
                 shouldEndAfterStream, interruptionMessage, calls, requests,
                 chunksSent, toolRounds, interrupts, roundBudget,
                 conversationSessions, controller, services, handoff, retry,
          pendingWhileActive>>

\* the call has been accepted and has not returned yet
InFlight(c) == calls[c].pc \in {"stream", "tools", "drain", "syncRequest"}

\* ------------------------------------------------- session bookkeeping
\* the fields of the session that entering and leaving a stream touch
Sess ==
  [messages |-> messages, userInterrupted |-> userInterrupted,
   interruptionMessage |-> interruptionMessage,
   streamActive |-> streamActive, streamDepth |-> streamDepth]

\* what one action works on: the session, the call's record and the counters
World(c) ==
  [s |-> Sess, call |-> calls[c], requests |-> requests,
   shouldEnd |-> shouldEndAfterStream]

Commit(c, w) ==
  /\ messages' = w.s.messages
  /\ userInterrupted' = w.s.userInterrupted
  /\ interruptionMessage' = w.s.interruptionMessage
  /\ streamActive' = w.s.streamActive
  /\ streamDepth' = w.s.streamDepth
  /\ calls' = [calls EXCEPT ![c] = w.call]
  /\ requests' = w.requests
  /\ shouldEndAfterStream' = w.shouldEnd
  /\ pendingWhileActive' = (pendingWhileActive /\ w.s.interruptionMessage # NoMsg)

Emit(w, evs) == [w EXCEPT !.call.events = @ \o evs]

\* "Handle interruption message" and "Convert and add messages"
\* (Chat Completions pushes the interruption message first)
pushIncomingChatCompletions(s, msgs) ==
  LET consume == s.userInterrupted /\ s.interruptionMessage # NoMsg
      s1 == IF consume
              THEN [s EXCEPT
                      !.messages = @ \o convertToChatCompletionsFormat(
                                          <<Msg(s.interruptionMessage.role,
                                                s.interruptionMessage.content)>>),
                      !.interruptionMessage = NoMsg,
                      !.userInterrupted = FALSE]
              ELSE s
  IN [s1 EXCEPT !.messages = @ \o convertToChatCompletionsFormat(msgs)]

\* (Responses and Agents push the interruption message onto the incoming list)
pushIncomingResponses(s, msgs) ==
  LET consume == s.userInterrupted /\ s.interruptionMessage # NoMsg
      incoming == IF consume THEN Append(msgs, s.interruptionMessage) ELSE msgs
      s1 == IF consume
              THEN [s EXCEPT !.interruptionMessage = NoMsg, !.userInterrupted = FALSE]
              ELSE s
  IN [s1 EXCEPT !.messages = @ \o convertToResponsesFormat(incoming)]

pushIncomingAgents(s, msgs) ==
  LET consume == s.userInterrupted /\ s.interruptionMessage # NoMsg
      incoming == IF consume THEN Append(msgs, s.interruptionMessage) ELSE msgs
      s1 == IF consume
              THEN [s EXCEPT !.interruptionMessage = NoMsg, !.userInterrupted = FALSE]
              ELSE s
  IN [s1 EXCEPT !.messages = @ \o agentsHistoryItems(incoming)]

pushIncoming(s, msgs) ==
  IF provider = CC THEN pushIncomingChatCompletions(s, msgs)
  ELSE IF provider = RS THEN pushIncomingResponses(s, msgs)
  ELSE pushIncomingAgents(s, msgs)

\* "Prevent multiple simultaneous completions"
streamAlreadyActive(s) == s.streamDepth = 0 /\ s.streamActive

\* this._streamActive = true; this._streamDepth++
enterStream(s) == [s EXCEPT !.streamActive = TRUE, !.streamDepth = @ + 1]

\* a variant that leaves the stream marked active
finallyBlockKeepingActive(s) ==
  LET d == s.streamDepth - 1
  IN IF d <= 0
       THEN [s EXCEPT !.streamDepth = 0, !.userInterrupted = FALSE]
       ELSE [s EXCEPT !.streamDepth = d]

\* the finally block of streamChatCompletion
finallyBlock(s) ==
  LET d == s.streamDepth - 1
  IN IF d <= 0
       THEN [s EXCEPT !.streamDepth = 0, !.streamActive = FALSE,
                      !.userInterrupted = FALSE]
       ELSE [s EXCEPT !.streamDepth = d]

\* the call is over: its frame, if any, runs its finally block; its locals
\* are gone
Exit(w) ==
  [w EXCEPT !.s = IF w.call.frame THEN finallyBlock(w.s) ELSE w.s,
            !.call.pc = "done", !.call.frame = FALSE, !.call.req = 0,
            !.call.chunks = 0, !.call.llmResponse = "", !.call.content = Null,
            !.call.toolCalls = <<>>, !.call.results = <<>>]

\* streamChatCompletion from its first line to the await on the backend
\* request; `inner` says that the caller is the adapter itself, whose own
\* frame leaves through its finally block as soon as the call has returned
\* its promise (return without await)
streamEntry(w, msgs, inner) ==
  LET s1 == pushIncoming(w.s, msgs)
  IN IF streamAlreadyActive(s1)
       THEN LET s2 == finallyBlock(s1)
                s3 == IF inner THEN finallyBlock(s2) ELSE s2
            IN [Exit([w EXCEPT !.call.frame = FALSE]) EXCEPT
                  !.s = s3, !.call.rejected = TRUE]
       ELSE LET s2 == enterStream(s1)
                s3 == IF inner THEN finallyBlock(s2) ELSE s2
            IN [w EXCEPT !.s = s3, !.requests = @ + 1,
                         !.call.pc = "stream", !.call.frame = TRUE,
                         !.call.req = w.requests + 1, !.call.chunks = 0,
                         !.call.llmResponse = "", !.call.toolCalls = <<>>,
                         !.call.results = <<>>]

\* chatCompletion from its first line to the await on the backend request
syncEntry(w, msgs) ==
  LET converted == IF provider = CC THEN convertToChatCompletionsFormat(msgs)
                   ELSE IF provider = RS THEN convertToResponsesFormat(msgs)
                   ELSE agentsHistoryItems(msgs)
  IN [w EXCEPT !.s.messages = @ \o converted, !.requests = @ + 1,
               !.call.pc = "syncRequest", !.call.req = w.requests + 1,
               !.call.toolCalls = <<>>, !.call.results = <<>>,
               !.call.content = Null]

\* ------------------------------------------------------------ the tools
\* the keys of the toolFunction table of executeToolCall
toolFunction ==
  {"check_increase_limit", "check_card_delivery", "troubleshoot_login_issues",
   "check_pending_bill", "search_common_medical_terms", "check_hsa_account",
   "check_payment_options", "switch_language", "identify_user",
   "add_survey_response", "book_driver"}

\* handlers that await an external service before they settle
AwaitsIO(name) == name \in {"add_survey_response", "book_driver", "identify_user"}

\* JSON.parse(args) returns (true) or throws (false)
JsonParses(args) == args # "{"

\* the properties of the object JSON.parse(args) returns
ParsedKeys(args) == IF args = "{\"userId\":\"u1\"}" THEN {"userId"} ELSE {}

\* the properties the tool's Zod schema requires
RequiredKeys(name) ==
  IF name \in {"check_pending_bill", "check_hsa_account", "check_card_delivery",
               "check_increase_limit", "troubleshoot_login_issues"}
    THEN {"userId"}
  ELSE IF name = "switch_language" THEN {"targetLanguage"}
  ELSE IF name = "search_common_medical_terms" THEN {"inquiry"}
  ELSE IF name = "human_agent_handoff" THEN {"reason"}
  ELSE IF name = "add_survey_response"
    THEN {"customerPhone", "inGeneral", "lastService", "lastDriver"}
  ELSE IF name = "book_driver" THEN {"date", "time", "duration", "summary"}
  ELSE {}

\* the arguments parse and carry every property the schema requires
SatisfiesSchema(tc) ==
  JsonParses(tc.args) /\ RequiredKeys(tc.name) \subseteq ParsedKeys(tc.args)

\* what the backend may ask for
ToolRequests ==
  {[name |-> "check_pending_bill", args |-> "{\"userId\":\"u1\"}"],
   [name |-> "check_pending_bill", args |-> "{}"],
   [name |-> "check_pending_bill", args |-> "{"],
   [name |-> "no_such_tool", args |-> "{}"],
   [name |-> "add_survey_response", args |-> "{}"],
   [name |-> "human_agent_handoff", args |-> "{}"]}

\* call ids are unique: request number and position within the round
CallId(req, idx) == req * 10 + idx
RoundOf(id) == id \div 10
IndexOf(id) == id % 10

Pending == [status |-> "pending", text |-> ""]
Fulfilled(text) == [status |-> "ok", text |-> text]

\* the catch of the Promise.all callback
ErrorResult(message) == [status |-> "error", text |-> "Error executing tool: " \o message]

handlerResult(name) ==
  IF name = "check_pending_bill" THEN "No pending bill found."
  ELSE IF name = "add_survey_response" THEN "Survey response recorded successfully."
  ELSE "ok"

\* executeToolCall up to the point where it returns, throws or awaits I/O
executeToolCallStart(tc) ==
  IF tc.name = "human_agent_handoff"
    THEN IF JsonParses(tc.args)
           THEN [result |-> Fulfilled("Handoff request initiated. Connecting you to a human agent."),
                 events |-> <<Ev("humanAgentHandoff", tc.args)>>, invoked |-> FALSE]
           ELSE [result |-> ErrorResult("Unexpected end of JSON input"),
                 events |-> <<Ev("toolCall:error", tc.name)>>, invoked |-> FALSE]
  ELSE IF tc.name \notin toolFunction
    THEN [result |-> ErrorResult("Tool " \o tc.name \o " not implemented"),
          events |-> <<Ev("toolCall:error", tc.name)>>, invoked |-> FALSE]
  ELSE IF ~JsonParses(tc.args)
    THEN [result |-> ErrorResult("Unexpected end of JSON input"),
          events |-> <<Ev("toolCall:error", tc.name)>>, invoked |-> FALSE]
  ELSE IF AwaitsIO(tc.name)
    THEN [result |-> Pending, events |-> <<>>, invoked |-> TRUE]
  ELSE [result |-> Fulfilled(handlerResult(tc.name)),
        events |-> IF tc.name = "switch_language"
                     THEN <<Ev("switchLanguage", tc.args)>> ELSE <<>>,
        invoked |-> TRUE]

\* a variant that raises the end flag whether or not the handler succeeded
executeToolCallSettleAlwaysEnding(tc, ok) ==
  IF ok
    THEN [result |-> Fulfilled(handlerResult(tc.name)), events |-> <<>>,
          shouldEnd |-> (tc.name = "add_survey_response")]
    ELSE [result |-> ErrorResult("Request failed"),
          events |-> <<Ev("toolCall:error", tc.name)>>,
          shouldEnd |-> (tc.name = "add_survey_response")]

\* executeToolCall from the handler's settlement on
executeToolCallSettle(tc, ok) ==
  IF ok
    THEN [result |-> Fulfilled(handlerResult(tc.name)), events |-> <<>>,
          shouldEnd |-> (tc.name = "add_survey_response")]
    ELSE [result |-> ErrorResult("Request failed"),
          events |-> <<Ev("toolCall:error", tc.name)>>, shouldEnd |-> FALSE]

RECURSIVE Flatten(_)
Flatten(ss) == IF ss = <<>> THEN <<>> ELSE Head(ss) \o Flatten(Tail(ss))

AllSettled(call) ==
  \A i \in 1..Len(call.results) : call.results[i].status # "pending"

\* a variant that collects the results as the tools settle
toolCallResultsAsSettled(call) ==
  [k \in 1..Len(call.doneOrder) |->
     ToolResult(call.toolCalls[call.doneOrder[k]].id,
                call.results[call.doneOrder[k]].text)]

\* a variant that keeps the results of the tools that succeeded only
toolCallResultsOfSuccesses(call) ==
  LET succeeded(i) == call.results[i].status = "ok"
      kept == SelectSeq([i \in 1..Len(call.toolCalls) |-> i], succeeded)
  IN [k \in 1..Len(kept) |->
        ToolResult(call.toolCalls[kept[k]].id, call.results[kept[k]].text)]

\* Promise.all(toolCalls.map(...)): the positions line up with the calls
toolCallResults(call) ==
  [i \in 1..Len(call.toolCalls) |->
     ToolResult(call.toolCalls[i].id, call.results[i].text)]

\* newMessages of streamChatCompletion: one assistant message per call
streamNewMessages(call) ==
  [i \in 1..Len(call.toolCalls) |->
     AssistantToolCalls(Null, <<call.toolCalls[i]>>)]
    \o toolCallResults(call)

\* a variant that records every call in an assistant message of its own
syncNewMessagesPerCall(call) ==
  [i \in 1..Len(call.toolCalls) |->
     AssistantToolCalls(call.content, <<call.toolCalls[i]>>)]
    \o toolCallResults(call)

\* newMessages of chatCompletion: one assistant message listing the calls
syncNewMessages(call) ==
  <<AssistantToolCalls(call.content, call.toolCalls)>> \o toolCallResults(call)

\* the code after the Promise.all: the transcript is resubmitted
resubmit(w) ==
  LET w1 == [w EXCEPT !.call.lastTools = w.call.toolCalls,
                      !.call.rounds = @ + 1]
  IN IF provider = RS
       THEN syncEntry([w1 EXCEPT !.s.messages = @ \o toolCallResults(w.call)], <<>>)
     ELSE IF w.call.frame
       THEN streamEntry(w1, streamNewMessages(w.call), TRUE)
     ELSE syncEntry(w1, syncNewMessages(w.call))

\* the synchronous part of the Promise.all over the round's tool calls
startTools(w) ==
  LET tcs == w.call.toolCalls
      started == [i \in 1..Len(tcs) |-> executeToolCallStart(tcs[i])]
      settled(i) == started[i].result.status # "pending"
      w1 == [Emit(w, Flatten([i \in 1..Len(tcs) |-> started[i].events]))
               EXCEPT !.call.pc = "tools",
                      !.call.results = [i \in 1..Len(tcs) |-> started[i].result],
                      !.call.doneOrder = SelectSeq([i \in 1..Len(tcs) |-> i], settled)]
  IN IF AllSettled(w1.call) THEN resubmit(w1) ELSE w1

\* ------------------------------------------------ streaming: the rounds
Frame ==
  UNCHANGED <<provider, mode, setupDone, interrupts, roundBudget,
              conversationSessions, controller, services, handoff, retry>>
Backend == UNCHANGED <<chunksSent, toolRounds>>

\* a variant that forgets to clear the flag
endIfRequestedKeepingFlag(w) ==
  IF w.shouldEnd THEN Emit(w, <<Ev("endInteraction", "")>>) ELSE w

\* "Graceful hang-up after stream": emit endInteraction and clear the flag
endIfRequested(w) ==
  IF w.shouldEnd
    THEN [Emit(w, <<Ev("endInteraction", "")>>) EXCEPT !.shouldEnd = FALSE]
    ELSE w

\* Agents: the code after the for-await loop; `completed` says that the run
\* reached its final output (result.finalOutput is undefined before that)
agentsAfterLoop(w, completed) ==
  LET resultFinalOutput == IF completed THEN w.call.llmResponse ELSE ""
      finalOutput == IF resultFinalOutput # "" THEN resultFinalOutput
                     ELSE w.call.llmResponse
  IN IF finalOutput # ""
       THEN endIfRequested(
              Emit([w EXCEPT !.s.messages = Append(@, Msg("assistant", finalOutput))],
                   <<Ev("streamChatCompletion:complete", "")>>))
       ELSE w

\* if (this._userInterrupted) { emit interrupted(llmResponse); break; }
interruptedBreak(w) ==
  LET w1 == Emit(w, <<Ev("streamChatCompletion:interrupted", w.call.llmResponse)>>)
  IN IF provider = AG THEN Exit(agentsAfterLoop(w1, FALSE)) ELSE Exit(w1)

\* the body of the for-await loop runs only if the interruption flag is down
onChunk(w, body) == IF w.s.userInterrupted THEN interruptedBreak(w) ELSE body

\* external call of the voice transport
streamChatCompletion(c) ==
  /\ mode = "voice" /\ setupDone
  /\ calls[c].pc = "idle"
  /\ \A d \in Turns : d < c => calls[d].pc # "idle"
  /\ requests < MaxRequests
  /\ Commit(c, streamEntry(World(c), <<UserMsg(c)>>, FALSE))
  /\ Frame /\ Backend

\* the transport signals an interruption: the userInterrupted setter and,
\* when it has a message for the model, addInterruptionMessage
interrupt(withMessage) ==
  /\ mode = "voice" /\ setupDone
  /\ interrupts < MaxInterrupts
  /\ interrupts' = interrupts + 1
  /\ userInterrupted' = TRUE
  /\ interruptionMessage' =
       IF withMessage THEN Msg("system", InterruptText) ELSE interruptionMessage
  /\ pendingWhileActive' = IF withMessage THEN streamActive ELSE pendingWhileActive
  /\ calls' = [c \in Turns |->
                 IF InFlight(c)
                   THEN [calls[c] EXCEPT !.events = Append(@, Ev("signal:interruption", ""))]
                   ELSE calls[c]]
  /\ UNCHANGED <<provider, mode, setupDone, messages, streamActive, streamDepth,
                 shouldEndAfterStream, requests, chunksSent, toolRounds,
                 roundBudget, conversationSessions, controller, services, handoff, retry>>

\* a chunk with text (delta.content / response.output_text.delta); the
\* backend streams the text of a response before its tool calls
textChunk(c) ==
  /\ calls[c].pc = "stream"
  /\ calls[c].toolCalls = <<>>
  /\ chunksSent < MaxChunks
  /\ chunksSent' = chunksSent + 1
  /\ LET w == World(c)
         content == ChunkText(w.call.chunks + 1)
     IN Commit(c, onChunk(w,
          Emit([w EXCEPT !.call.llmResponse = @ \o content, !.call.chunks = @ + 1],
               <<Ev("streamChatCompletion:partial", content)>>)))
  /\ Frame /\ UNCHANGED toolRounds

\* a chunk announcing a tool call (delta.tool_calls with an id /
\* response.output_item.added and its argument deltas)
toolCallChunk(c, t) ==
  /\ provider \in {CC, RS}
  /\ calls[c].pc = "stream"
  /\ Len(calls[c].toolCalls) < MaxTools
  /\ requests < MaxRequests
  /\ calls[c].toolCalls = <<>> => toolRounds < roundBudget
  /\ toolRounds' = IF calls[c].toolCalls = <<>> THEN toolRounds + 1 ELSE toolRounds
  /\ LET w == World(c)
         tc == [id |-> CallId(w.call.req, Len(w.call.toolCalls) + 1),
                name |-> t.name, args |-> t.args]
         w1 == [w EXCEPT !.call.toolCalls = Append(@, tc)]
     IN Commit(c, onChunk(w,
          IF provider = CC
            THEN Emit(w1, <<Ev("streamChatCompletion:partial", "")>>)
            ELSE w1))
  /\ Frame /\ UNCHANGED chunksSent

\* Chat Completions: the chunk with finish_reason "stop"
stopChunk(c, content) ==
  /\ provider = CC
  /\ calls[c].pc = "stream"
  /\ LET w == World(c)
         llmResponse == w.call.llmResponse \o content
         w1 == Emit([w EXCEPT !.call.llmResponse = llmResponse,
                              !.s.messages = Append(@, Msg("assistant", llmResponse))],
                    <<Ev("streamChatCompletion:complete", content)>>)
     IN Commit(c, onChunk(w,
          IF w1.shouldEnd
            THEN Exit(endIfRequested(w1))
            ELSE [w1 EXCEPT !.call.pc = "drain"]))
  /\ Frame /\ Backend

\* Chat Completions: the chunk with finish_reason "tool_calls"
toolCallsFinish(c) ==
  /\ provider = CC
  /\ calls[c].pc = "stream"
  /\ calls[c].toolCalls # <<>>
  /\ LET w == World(c)
     IN Commit(c, onChunk(w,
          startTools(Emit(w, <<Ev("streamChatCompletion:partial", "")>>))))
  /\ Frame /\ Backend

\* Responses: the response.completed event
responseCompleted(c) ==
  /\ provider = RS
  /\ calls[c].pc = "stream"
  /\ LET w == World(c)
         text == w.call.llmResponse
         w1 == IF text # ""
                 THEN Emit([w EXCEPT !.s.messages = Append(@, Msg("assistant", text))],
                           <<Ev("streamChatCompletion:complete", text)>>)
                 ELSE w
         w2 == [w1 EXCEPT !.s.messages =
                            @ \o [i \in 1..Len(w.call.toolCalls) |->
                                    FunctionCall(w.call.toolCalls[i])]]
     IN Commit(c, onChunk(w,
          IF text # "" /\ w1.shouldEnd THEN Exit(endIfRequested(w1))
          ELSE IF w.call.toolCalls # <<>> THEN startTools(w2)
          ELSE [w1 EXCEPT !.call.pc = "drain"]))
  /\ Frame /\ Backend

\* Agents: the run is over and the for-await loop ends
runCompleted(c) ==
  /\ provider = AG
  /\ calls[c].pc = "stream"
  /\ Commit(c, Exit(agentsAfterLoop(World(c), TRUE)))
  /\ Frame /\ Backend

\* the stream ends: the for-await loop is left and the finally block runs
streamEnds(c) ==
  /\ provider \in {CC, RS}
  /\ calls[c].pc \in {"stream", "drain"}
  /\ Commit(c, Exit(World(c)))
  /\ Frame /\ Backend

\* a tool handler that awaited I/O settles
toolDone(c, i, ok) ==
  /\ calls[c].pc = "tools"
  /\ i \in 1..Len(calls[c].results)
  /\ calls[c].results[i].status = "pending"
  /\ LET w == World(c)
         out == executeToolCallSettle(w.call.toolCalls[i], ok)
         w1 == [Emit(w, out.events)
                  EXCEPT !.call.results[i] = out.result,
                         !.call.doneOrder = Append(@, i),
                         !.shouldEnd = (@ \/ out.shouldEnd)]
     IN Commit(c, IF AllSettled(w1.call) THEN resubmit(w1) ELSE w1)
  /\ Frame /\ Backend

\* ---------------------------------------------- non-streaming: the rounds
\* external call of the messaging controller (handleIncomingMessage)
chatCompletion(c) ==
  /\ mode = "messaging" /\ setupDone
  /\ calls[c].pc = "idle"
  /\ \A d \in Turns : d < c => calls[d].pc # "idle"
  /\ requests < MaxRequests
  /\ Commit(c, syncEntry(World(c), <<UserMsg(c)>>))
  /\ Frame /\ Backend

\* after chatCompletion has returned: a streaming caller (Responses) goes on
\* with its for-await loop, the messaging controller is done
syncReturn(w) ==
  IF w.call.frame THEN [w EXCEPT !.call.pc = "drain"] ELSE Exit(w)

\* the backend answers a non-streaming request with the final text
syncFinal(c) ==
  /\ calls[c].pc = "syncRequest"
  /\ LET w == World(c)
     IN Commit(c, syncReturn(endIfRequested(
          Emit([w EXCEPT !.s.messages = Append(@, Msg("assistant", FinalText))],
               <<Ev("chatCompletion:complete", FinalText)>>))))
  /\ Frame /\ Backend

ToolCallLists ==
  UNION {[1..n -> ToolRequests] : n \in 1..MaxTools}

\* the backend answers a non-streaming request with tool calls
syncToolCalls(c, ts) ==
  /\ provider \in {CC, RS}
  /\ calls[c].pc = "syncRequest"
  /\ requests < MaxRequests
  /\ toolRounds < roundBudget
  /\ toolRounds' = toolRounds + 1
  /\ LET w == World(c)
         tcs == [i \in 1..Len(ts) |->
                   [id |-> CallId(w.call.req, i), name |-> ts[i].name,
                    args |-> ts[i].args]]
         w1 == [w EXCEPT !.call.toolCalls = tcs, !.call.content = Null]
         w2 == IF provider = RS
                 THEN [w1 EXCEPT !.s.messages =
                                   @ \o [i \in 1..Len(tcs) |-> FunctionCall(tcs[i])]]
                 ELSE w1
     IN Commit(c, startTools(w2))
  /\ Frame /\ UNCHANGED chunksSent

\* a variant that keeps the text received before the failure
backendFailKeepingPartial(c) ==
  /\ calls[c].pc \in {"stream", "syncRequest"}
  /\ LET w0 == [World(c) EXCEPT !.call.failed = TRUE]
         w == IF w0.call.llmResponse # ""
                THEN [w0 EXCEPT !.s.messages =
                                  Append(@, Msg("assistant", w0.call.llmResponse))]
                ELSE w0
     IN Commit(c, Exit(IF w.call.pc = "syncRequest"
                         THEN Emit(w, <<Ev("chatCompletion:error", "")>>)
                         ELSE w))
  /\ Frame /\ Backend

\* the backend request fails (network, auth, rate limit)
backendFail(c) ==
  /\ calls[c].pc \in {"stream", "syncRequest"}
  /\ LET w == [World(c) EXCEPT !.call.failed = TRUE]
     IN Commit(c, Exit(IF w.call.pc = "syncRequest"
                         THEN Emit(w, <<Ev("chatCompletion:error", "")>>)
                         ELSE w))
  /\ Frame /\ Backend

\* Agents: during a run the SDK executes the add_survey_response tool, whose
\* execute callback raises the end-after-stream flag
agentsSurveyTool(c) ==
  /\ provider = AG
  /\ calls[c].pc \in {"stream", "syncRequest"}
  /\ toolRounds < roundBudget
  /\ toolRounds' = toolRounds + 1
  /\ shouldEndAfterStream' = TRUE
  /\ UNCHANGED <<messages, userInterrupted, streamActive, streamDepth,
                 interruptionMessage, calls, requests, chunksSent,
                 pendingWhileActive>>
  /\ Frame

Next ==
  \/ setup
  \/ \E withMessage \in BOOLEAN : interrupt(withMessage)
  \/ \E c \in Turns : streamChatCompletion(c)
  \/ \E c \in Turns : textChunk(c)
  \/ \E c \in Turns, t \in ToolRequests : toolCallChunk(c, t)
  \/ \E c \in Turns, content \in StopContents : stopChunk(c, content)
  \/ \E c \in Turns : toolCallsFinish(c)
  \/ \E c \in Turns : responseCompleted(c)
  \/ \E c \in Turns : runCompleted(c)
  \/ \E c \in Turns : streamEnds(c)
  \/ \E c \in Turns, i \in 1..MaxTools, ok \in BOOLEAN : toolDone(c, i, ok)
  \/ \E c \in Turns : chatCompletion(c)
  \/ \E c \in Turns : syncFinal(c)
  \/ \E c \in Turns, ts \in ToolCallLists : syncToolCalls(c, ts)
  \/ \E c \in Turns : backendFail(c)
  \/ \E c \in Turns : agentsSurveyTool(c)

Spec == Init /\ [][Next]_vars

\* ------------------------------------------- a backend that keeps asking
\* the number of rounds after which a capped tool-call loop would stop
RoundCap == 1

\* a session whose backend answers with tool calls once more than the cap
\* allows, sends no text and is not interrupted
InitLoop ==
  /\ provider \in {CC, RS}
  /\ mode \in Modes
  /\ setupDone = FALSE
  /\ messages = InitialMessages(provider)
  /\ userInterrupted = FALSE
  /\ streamActive = FALSE
  /\ streamDepth = 0
  /\ shouldEndAfterStream = FALSE
  /\ interruptionMessage = NoMsg
  /\ calls = [c \in Turns |-> IdleCall]
  /\ requests = 0
  /\ chunksSent = MaxChunks
  /\ toolRounds = 0
  /\ interrupts = MaxInterrupts
  /\ roundBudget = RoundCap + 1
  /\ conversationSessions = 0
  /\ controller = InitialController
  /\ services = InitialServices
  /\ handoff = InitialHandoff
  /\ retry = InitialRetry
  /\ pendingWhileActive = FALSE

NextLoop ==
  \/ setup
  \/ \E c \in Turns : streamChatCompletion(c)
  \/ \E c \in Turns, t \in ToolRequests : toolCallChunk(c, t)
  \/ \E c \in Turns, content \in StopContents : stopChunk(c, content)
  \/ \E c \in Turns : toolCallsFinish(c)
  \/ \E c \in Turns : responseCompleted(c)
  \/ \E c \in Turns : streamEnds(c)
  \/ \E c \in Turns, i \in 1..MaxTools, ok \in BOOLEAN : toolDone(c, i, ok)
  \/ \E c \in Turns : chatCompletion(c)
  \/ \E c \in Turns : syncFinal(c)
  \/ \E c \in Turns, ts \in ToolCallLists : syncToolCalls(c, ts)
  \/ \E c \in Turns : backendFail(c)

SpecLoop == InitLoop /\ [][NextLoop]_vars

\* ------------------------------------------- the messaging controller
\* the session-level state, which the controller's own code does not touch
SessionState ==
  <<provider, mode, setupDone, messages, userInterrupted, streamActive,
    streamDepth, shouldEndAfterStream, interruptionMessage, calls, requests,
    chunksSent, toolRounds, interrupts, roundBudget, services, handoff, retry,
    pendingWhileActive>>

\* a variant of the endInteraction listener that leaves the registry alone
onEndInteractionKeepingEntry(registered, ctl, s) ==
  [registered |-> registered,
   ctl |-> IF s \in ctl.ended THEN ctl ELSE [ctl EXCEPT !.ended = @ \cup {s}]]

\* llmService.once('endInteraction', ...): the first endInteraction of session
\* s deletes the entry stored under the ConversationSid
onEndInteraction(registered, ctl, s) ==
  IF s \in ctl.ended
    THEN [registered |-> registered, ctl |-> ctl]
    ELSE [registered |-> 0, ctl |-> [ctl EXCEPT !.ended = @ \cup {s}]]

\* handleIncomingMessage from its first line to the await on the participant
\* fetch; messages written by the assistant are ignored
handleIncomingMessage(h, author) ==
  /\ controller.inbound[h].pc = "idle"
  /\ \A g \in Inbound : g < h => controller.inbound[g].pc # "idle"
  /\ controller' =
       [controller EXCEPT !.inbound[h].author = author,
                          !.inbound[h].pc =
                            IF IgnoredAuthor(author) THEN "done" ELSE "fetch"]
  /\ UNCHANGED <<conversationSessions, SessionState>>

\* the participant fetch fails after its retries: the handler throws
fetchFails(h) ==
  /\ controller.inbound[h].pc = "fetch"
  /\ controller' = [controller EXCEPT !.inbound[h].pc = "done"]
  /\ UNCHANGED <<conversationSessions, SessionState>>

\* after the participant fetch: conversationSessions.get; a missing session
\* is created and the handler awaits its setup(), an existing one goes
\* straight to chatCompletion
participantFetched(h) ==
  /\ controller.inbound[h].pc = "fetch"
  /\ IF conversationSessions = 0
       THEN /\ controller.created < MaxSessions
            /\ LET s == controller.created + 1
               IN controller' =
                    [controller EXCEPT !.created = s, !.setups[s] = @ + 1,
                                       !.inbound[h].pc = "setup",
                                       !.inbound[h].llmService = s]
       ELSE controller' =
              [controller EXCEPT !.inbound[h].pc = "turn",
                                 !.inbound[h].llmService = conversationSessions]
  /\ UNCHANGED <<conversationSessions, SessionState>>

\* a variant that registers every listener a second time
registerListenersTwice(ctl, s) == [ctl EXCEPT !.listeners[s] = @ + 2]

\* llmService.on('chatCompletion:complete', ...), llmService.on(
\* 'humanAgentHandoff', ...), llmService.once('endInteraction', ...)
registerListeners(ctl, s) == [ctl EXCEPT !.listeners[s] = @ + 1]

\* after the await on setup(): conversationSessions.set, the listeners are
\* registered and chatCompletion is called
sessionSetUp(h) ==
  /\ controller.inbound[h].pc = "setup"
  /\ conversationSessions' = controller.inbound[h].llmService
  /\ controller' =
       registerListeners([controller EXCEPT !.inbound[h].pc = "turn"],
                         controller.inbound[h].llmService)
  /\ UNCHANGED SessionState

\* the turn of handler h runs the handoff tool: the session emits
\* humanAgentHandoff and every listener registered for it runs
turnEmitsHandoff(h) ==
  /\ controller.inbound[h].pc = "turn"
  /\ controller.handoffEvents < MaxHandoffEvents
  /\ controller' =
       [controller EXCEPT
          !.handoffEvents = @ + 1,
          !.handoffsHandled =
             @ + controller.listeners[controller.inbound[h].llmService]]
  /\ UNCHANGED <<conversationSessions, SessionState>>

\* the turn of handler h completes: the chatCompletion:complete listener sends
\* the reply to the conversation; endInteraction follows if the turn recorded
\* a survey response
turnCompletes(h, end) ==
  /\ controller.inbound[h].pc = "turn"
  /\ LET s == controller.inbound[h].llmService
         ctl == [controller EXCEPT
                   !.completes = @ + 1,
                   !.sent = @ \o [i \in 1..controller.listeners[s] |-> s],
                   !.inbound[h].pc = "done"]
         out == IF end THEN onEndInteraction(conversationSessions, ctl, s)
                ELSE [registered |-> conversationSessions, ctl |-> ctl]
     IN /\ conversationSessions' = out.registered
        /\ controller' = out.ctl
  /\ UNCHANGED SessionState

\* the turn of handler h fails at the backend: chatCompletion throws
turnFails(h) ==
  /\ controller.inbound[h].pc = "turn"
  /\ controller' = [controller EXCEPT !.inbound[h].pc = "done"]
  /\ UNCHANGED <<conversationSessions, SessionState>>

RemovalEvents == {"onParticipantRemoved", "onConversationRemoved"}

\* handleConversationEvent: conversationSessions.delete(ConversationSid)
handleConversationEvent(type) ==
  /\ type \in RemovalEvents
  /\ controller.evictions < MaxEvictions
  /\ conversationSessions' = 0
  /\ controller' =
       [controller EXCEPT !.evictions = @ + 1,
                          !.evicted = @ \cup ({conversationSessions} \ {0})]
  /\ UNCHANGED SessionState

InitController == Init /\ mode = "messaging"

NextController ==
  \/ \E h \in Inbound, author \in Authors :
       handleIncomingMessage(h, author)
  \/ \E h \in Inbound : fetchFails(h)
  \/ \E h \in Inbound : participantFetched(h)
  \/ \E h \in Inbound : sessionSetUp(h)
  \/ \E h \in Inbound : turnEmitsHandoff(h)
  \/ \E h \in Inbound, end \in BOOLEAN : turnCompletes(h, end)
  \/ \E h \in Inbound : turnFails(h)
  \/ \E type \in RemovalEvents : handleConversationEvent(type)

SpecController == InitController /\ [][NextController]_vars

\* --------------------------------------------- services side by side
\* everything but the services and the process environment
OneSession ==
  <<provider, mode, setupDone, messages, userInterrupted, streamActive,
    streamDepth, shouldEndAfterStream, interruptionMessage, calls, requests,
    chunksSent, toolRounds, interrupts, roundBudget, conversationSessions,
    controller, handoff, retry, pendingWhileActive>>

\* createLLMService({provider: p, apiKey: key}): the constructors of the
\* Chat Completions and Responses adapters build their own client; the
\* constructor of the Agents adapter stores the key in the process environment
createLLMService(s, p, key) ==
  /\ services.instances[s].state = "none"
  /\ \A r \in Services : r < s => services.instances[r].state # "none"
  /\ services' =
       [services EXCEPT
          !.env = IF p = AG THEN key ELSE @,
          !.instances[s] =
             [NoService EXCEPT !.state = "live", !.provider = p,
                               !.openaiKey = IF p = AG THEN NoKey ELSE key,
                               !.messages = Len(InitialMessages(p))]]
  /\ UNCHANGED OneSession

\* setup() of service s
serviceSetup(s) ==
  /\ services.instances[s].state = "live"
  /\ ~services.instances[s].setupDone
  /\ services' = [services EXCEPT !.instances[s].setupDone = TRUE,
                                  !.instances[s].messages = @ + 1]
  /\ UNCHANGED OneSession

\* a turn of service s: the user message and the answer are appended; the
\* request of an Agents service goes through the SDK's default client, built
\* from the process environment (k is the key of that client: the one it was
\* built with earlier or the one in the environment now)
serviceTurn(s, k) ==
  /\ services.instances[s].state = "live"
  /\ services.instances[s].setupDone
  /\ services.instances[s].turns < MaxServiceTurns
  /\ IF services.instances[s].provider = AG
       THEN k \in {services.env} \cup ({services.sdkKey} \ {NoKey})
       ELSE k = services.instances[s].openaiKey
  /\ services' =
       [services EXCEPT
          !.sdkKey = IF services.instances[s].provider = AG THEN k ELSE @,
          !.instances[s].keyUsed = k,
          !.instances[s].turns = @ + 1,
          !.instances[s].messages = @ + 2]
  /\ UNCHANGED OneSession

\* the transport signals an interruption to service s
serviceInterrupt(s) ==
  /\ services.instances[s].state = "live"
  /\ ~services.instances[s].userInterrupted
  /\ services' = [services EXCEPT !.instances[s].userInterrupted = TRUE]
  /\ UNCHANGED OneSession

\* the owner of service s drops it
serviceRemoved(s) ==
  /\ services.instances[s].state = "live"
  /\ services' = [services EXCEPT !.instances[s].state = "removed"]
  /\ UNCHANGED OneSession

InitServices == Init /\ provider = CC /\ mode = "messaging"

NextServices ==
  \/ \E s \in Services, p \in Providers, key \in ApiKeys : createLLMService(s, p, key)
  \/ \E s \in Services : serviceSetup(s)
  \/ \E s \in Services, k \in ApiKeys \cup {"sk-env"} : serviceTurn(s, k)
  \/ \E s \in Services : serviceInterrupt(s)
  \/ \E s \in Services : serviceRemoved(s)

SpecServices == InitServices /\ [][NextServices]_vars

\* ------------------------------------------- handing a conversation off
\* everything but the conversation being handed off
HandoffRest ==
  <<provider, mode, setupDone, messages, userInterrupted, streamActive,
    streamDepth, shouldEndAfterStream, interruptionMessage, calls, requests,
    chunksSent, toolRounds, interrupts, roundBudget, conversationSessions,
    controller, services, retry, pendingWhileActive>>

\* the run of listener p ends with the error of the call named by `call`
handoffFails(l, call) == [l EXCEPT !.pc = "failed", !.error = call]

\* a variant in which an error of removeBotWebhooks ends the handoff
webhookFailureAborting(l) ==
  [l EXCEPT !.pc = "failed", !.error = "webhooks", !.webhookError = TRUE]

\* the catch block of removeBotWebhooks: the error is logged and the function
\* returns, so handleConversationHandoff goes on to the attribute update
webhookFailure(l) == [l EXCEPT !.pc = "attrs", !.webhookError = TRUE]

\* the session emits humanAgentHandoff: the listener runs up to its await on
\* the conversation fetch
humanAgentHandoff(p) ==
  /\ handoff.listeners[p].pc = "idle"
  /\ \A q \in HandoffListeners : q < p => handoff.listeners[q].pc # "idle"
  /\ handoff' = [handoff EXCEPT !.listeners[p].pc = "check"]
  /\ UNCHANGED HandoffRest

\* the conversation fetch of the duplicate check settles
conversationFetched(p, ok) ==
  /\ handoff.listeners[p].pc = "check"
  /\ handoff' =
       [handoff EXCEPT !.listeners[p] =
          IF ~ok THEN handoffFails(@, "check")
          ELSE IF handoff.attributes.handedOff THEN [@ EXCEPT !.pc = "ignored"]
          ELSE [@ EXCEPT !.pc = "create"]]
  /\ UNCHANGED HandoffRest

\* client.flexApi.v1.interaction.create settles; on success
\* removeBotWebhooks starts
interactionCreated(p, ok) ==
  /\ handoff.listeners[p].pc = "create"
  /\ handoff' =
       IF ~ok
         THEN [handoff EXCEPT !.listeners[p] = handoffFails(@, "create")]
         ELSE [handoff EXCEPT
                 !.interactions = @ + 1,
                 !.listeners[p].interaction = handoff.interactions + 1,
                 !.listeners[p].pc = IF handoff.ngrokDomain THEN "list" ELSE "attrs"]
  /\ UNCHANGED HandoffRest

\* the webhook listing settles
webhooksListed(p, ok) ==
  /\ handoff.listeners[p].pc = "list"
  /\ LET bots == {w \in handoff.webhooks : IsBotWebhook(w)}
     IN handoff' =
          [handoff EXCEPT !.listeners[p] =
             IF ~ok THEN webhookFailure(@)
             ELSE [@ EXCEPT !.listed = bots,
                            !.pc = IF bots = {} THEN "attrs" ELSE "remove"]]
  /\ UNCHANGED HandoffRest

\* the removal of a listed bot webhook settles; a webhook that is no longer
\* there cannot be removed
webhookRemoved(p, ok) ==
  /\ handoff.listeners[p].pc = "remove"
  /\ LET w == CHOOSE x \in handoff.listeners[p].listed : TRUE
         left == handoff.listeners[p].listed \ {w}
     IN /\ ok => w \in handoff.webhooks
        /\ handoff' =
             IF ~ok
               THEN [handoff EXCEPT !.listeners[p] = webhookFailure(@)]
               ELSE [handoff EXCEPT
                       !.webhooks = @ \ {w},
                       !.listeners[p].removed = @ + 1,
                       !.listeners[p].listed = left,
                       !.listeners[p].pc = IF left = {} THEN "attrs" ELSE "remove"]
  /\ UNCHANGED HandoffRest

\* the fetch of the current attributes inside the update's argument settles
attributesFetched(p, ok) ==
  /\ handoff.listeners[p].pc = "attrs"
  /\ handoff' =
       [handoff EXCEPT !.listeners[p] =
          IF ~ok THEN handoffFails(@, "attrs")
          ELSE [@ EXCEPT !.snapshot = handoff.attributes, !.pc = "update"]]
  /\ UNCHANGED HandoffRest

\* the update of the conversation attributes settles
conversationUpdated(p, ok) ==
  /\ handoff.listeners[p].pc = "update"
  /\ handoff' =
       IF ~ok
         THEN [handoff EXCEPT !.listeners[p] = handoffFails(@, "update")]
         ELSE [handoff EXCEPT
                 !.attributes =
                    [handoff.listeners[p].snapshot EXCEPT
                       !.handedOff = TRUE,
                       !.interactionSid = handoff.listeners[p].interaction],
                 !.listeners[p].marked = TRUE,
                 !.listeners[p].pc = "done"]
  /\ UNCHANGED HandoffRest

InitHandoff ==
  /\ provider = CC
  /\ mode = "messaging"
  /\ setupDone = FALSE
  /\ messages = InitialMessages(provider)
  /\ userInterrupted = FALSE
  /\ streamActive = FALSE
  /\ streamDepth = 0
  /\ shouldEndAfterStream = FALSE
  /\ interruptionMessage = NoMsg
  /\ calls = [c \in Turns |-> IdleCall]
  /\ requests = 0
  /\ chunksSent = 0
  /\ toolRounds = 0
  /\ interrupts = 0
  /\ roundBudget = MaxToolRounds
  /\ conversationSessions = 0
  /\ controller = InitialController
  /\ services = InitialServices
  /\ handoff \in {[InitialHandoff EXCEPT !.ngrokDomain = b] : b \in BOOLEAN}
  /\ retry = InitialRetry
  /\ pendingWhileActive = FALSE

NextHandoff ==
  \/ \E p \in HandoffListeners : humanAgentHandoff(p)
  \/ \E p \in HandoffListeners, ok \in BOOLEAN : conversationFetched(p, ok)
  \/ \E p \in HandoffListeners, ok \in BOOLEAN : interactionCreated(p, ok)
  \/ \E p \in HandoffListeners, ok \in BOOLEAN : webhooksListed(p, ok)
  \/ \E p \in HandoffListeners, ok \in BOOLEAN : webhookRemoved(p, ok)
  \/ \E p \in HandoffListeners, ok \in BOOLEAN : attributesFetched(p, ok)
  \/ \E p \in HandoffListeners, ok \in BOOLEAN : conversationUpdated(p, ok)

SpecHandoff == InitHandoff /\ [][NextHandoff]_vars

\* ------------------------------------------------------------- withRetry
\* everything but the call of withRetry
RetryRest ==
  <<provider, mode, setupDone, messages, userInterrupted, streamActive,
    streamDepth, shouldEndAfterStream, interruptionMessage, calls, requests,
    chunksSent, toolRounds, interrupts, roundBudget, conversationSessions,
    controller, services, handoff, pendingWhileActive>>

\* error.code: absent, a string or a number
NoCode == [kind |-> "undefined", text |-> ""]
StringCode(text) == [kind |-> "string", text |-> text]
NumberCode(text) == [kind |-> "number", text |-> text]

\* String(n) for the HTTP status codes of the errors below
String(n) ==
  CASE n = 400 -> "400" [] n = 404 -> "404" [] n = 429 -> "429"
    [] n = 503 -> "503" [] OTHER -> "0"

\* word.toLowerCase() for the words of the messages below
toLowerCase(word) ==
  CASE word = "Network" -> "network" [] word = "Socket" -> "socket"
    [] word = "Timeout" -> "timeout" [] OTHER -> word

\* the errors an attempt rejects with: by code, by status, by numeric Twilio
\* code, by message, and three that match nothing
Errors ==
  {[code |-> StringCode("ECONNRESET"), status |-> 0, message |-> <<"read">>],
   [code |-> NoCode, status |-> 503, message |-> <<"Service", "Unavailable">>],
   [code |-> NumberCode("429"), status |-> 0, message |-> <<"Too", "many">>],
   [code |-> NoCode, status |-> 0, message |-> <<"Socket", "hang", "up">>],
   [code |-> NumberCode("20404"), status |-> 404, message |-> <<"not", "found">>],
   [code |-> NoCode, status |-> 400, message |-> <<"Invalid", "parameter">>]}

\* message.includes(words) for a message given word by word
includes(message, words) ==
  \E i \in 1..(Len(message) - Len(words) + 1) :
    \A j \in 1..Len(words) : toLowerCase(message[i + j - 1]) = words[j]

\* a variant that takes every error with an HTTP status for retryable
isRetryableErrorByAnyStatus(error, retryableErrors) ==
  \/ error.code.kind = "string" /\ error.code.text \in retryableErrors
  \/ error.status # 0
  \/ error.code.kind = "number" /\ error.code.text \in retryableErrors
  \/ includes(error.message, <<"network">>)

isRetryableError(error, retryableErrors) ==
  \/ error.code.kind = "string" /\ error.code.text \in retryableErrors
  \/ error.status # 0 /\ String(error.status) \in retryableErrors
  \/ error.code.kind = "number" /\ error.code.text \in retryableErrors
  \/ /\ error.message # <<>>
     /\ \/ includes(error.message, <<"network">>)
        \/ includes(error.message, <<"timeout">>)
        \/ includes(error.message, <<"econnreset">>)
        \/ includes(error.message, <<"socket", "hang", "up">>)

\* Math.min
Min(a, b) == IF a <= b THEN a ELSE b

\* a variant that gives up one attempt later
retriesExhaustedLate(r) == r.attempt > r.opts.maxRetries + 1

\* attempt > opts.maxRetries
retriesExhausted(r) == r.attempt > r.opts.maxRetries

\* attempt <= opts.maxRetries + 1
loopContinues(r) == r.attempt <= r.opts.maxRetries + 1

\* the head of the loop: the next attempt calls operation(), or the loop is
\* over and lastError is thrown
nextAttempt(r) ==
  IF loopContinues(r)
    THEN [r EXCEPT !.pc = "operation", !.invocations = @ + 1]
    ELSE [r EXCEPT !.pc = "threw",
                   !.thrown = IF r.errors = <<>> THEN NoError
                              ELSE r.errors[Len(r.errors)]]

\* withRetry is called: delay = opts.initialDelayMs, attempt = 1
withRetry ==
  /\ retry.pc = "idle"
  /\ retry' = nextAttempt([retry EXCEPT !.attempt = 1,
                                        !.delay = retry.opts.initialDelayMs])
  /\ UNCHANGED RetryRest

\* return await operation(): the attempt succeeds
operationResolves ==
  /\ retry.pc = "operation"
  /\ retry' = [retry EXCEPT !.pc = "returned"]
  /\ UNCHANGED RetryRest

\* the attempt fails: the catch block throws or starts the wait
operationRejects(error) ==
  /\ retry.pc = "operation"
  /\ LET shouldRetry == isRetryableError(error, retry.opts.retryableErrors)
         r == [retry EXCEPT !.errors = Append(@, error)]
     IN retry' =
          IF ~shouldRetry \/ retriesExhausted(retry)
            THEN [r EXCEPT !.pc = "threw", !.thrown = error]
            ELSE [r EXCEPT !.pc = "sleep", !.waits = Append(@, retry.delay)]
  /\ UNCHANGED RetryRest

\* the wait is over: the delay grows and the loop goes round
sleepDone ==
  /\ retry.pc = "sleep"
  /\ retry' =
       nextAttempt([retry EXCEPT
                      !.delay = Min(retry.delay * retry.opts.backoffMultiplier,
                                    retry.opts.maxDelayMs),
                      !.attempt = @ + 1])
  /\ UNCHANGED RetryRest

InitRetry ==
  /\ provider = CC
  /\ mode = "messaging"
  /\ setupDone = FALSE
  /\ messages = InitialMessages(provider)
  /\ userInterrupted = FALSE
  /\ streamActive = FALSE
  /\ streamDepth = 0
  /\ shouldEndAfterStream = FALSE
  /\ interruptionMessage = NoMsg
  /\ calls = [c \in Turns |-> IdleCall]
  /\ requests = 0
  /\ chunksSent = 0
  /\ toolRounds = 0
  /\ interrupts = 0
  /\ roundBudget = MaxToolRounds
  /\ conversationSessions = 0
  /\ controller = InitialController
  /\ services = InitialServices
  /\ handoff = InitialHandoff
  /\ retry \in {NewRetry(options) : options \in RetryOptions}
  /\ pendingWhileActive = FALSE

NextRetry ==
  \/ withRetry
  \/ operationResolves
  \/ \E error \in Errors : operationRejects(error)
  \/ sleepDone

SpecRetry == InitRetry /\ [][NextRetry]_vars

\* ================================================================ properties
\* the step in which the transport hands turn c to the session
Submitted(c) == calls[c].pc = "idle" /\ calls'[c].pc # "idle"

\* positions of the events of one type in the log of call c
EventsOf(c, type) ==
  {i \in DOMAIN calls[c].events : calls[c].events[i].type = type}

\* positions of the tool-result messages that answer call id
ResultsFor(id) ==
  {i \in DOMAIN messages : messages[i].role = "tool" /\ messages[i].toolCallId = id}

\* positions of the messages that carry the tool call id
IssuesOf(id) ==
  {j \in DOMAIN messages :
     /\ messages[j].role \in {"assistant", "function_call"}
     /\ \E k \in DOMAIN messages[j].toolCalls : messages[j].toolCalls[k].id = id}

IsInterruptionMessage(m) == m.role = "system" /\ m.content = InterruptText

InterruptionMessagesIn(msgs) ==
  Cardinality({i \in DOMAIN msgs : IsInterruptionMessage(msgs[i])})

RECURSIVE Concat(_)
Concat(ss) == IF ss = <<>> THEN "" ELSE Head(ss) \o Concat(Tail(ss))

\* the texts of the partial events among the first n events of call c
PartialsBefore(c, n) ==
  LET isPartial(e) == e.type = "streamChatCompletion:partial"
      prefix == SubSeq(calls[c].events, 1, n - 1)
      partials == SelectSeq(prefix, isPartial)
  IN Concat([i \in 1..Len(partials) |-> partials[i].payload])

\* C1: a streamChatCompletion call made from outside while an earlier
\* streamChatCompletion of the session has not finished is rejected as a
\* no-op: it makes no backend request and emits no events.
C1_SecondStreamIsNoOp ==
  [][\A c \in Turns :
       (mode = "voice" /\ Submitted(c) /\ \E d \in Turns : InFlight(d))
         => (requests' = requests /\ calls'[c].events = <<>>
             /\ calls'[c].pc = "done")]_vars

\* C2: a streamChatCompletion call that arrives while a stream is already
\* active leaves the transcript unchanged: neither the submitted messages nor
\* a pending interruption message are appended.
C2_RejectedCallKeepsTranscript ==
  [][\A c \in Turns :
       (mode = "voice" /\ Submitted(c) /\ streamActive)
         => messages' = messages]_vars

\* C3: in messaging mode at most one turn is in flight at any instant: a
\* second inbound message arriving while the first turn awaits the backend or
\* executes tools is rejected.
C3_OneTurnInFlight ==
  mode = "messaging" => Cardinality({c \in Turns : InFlight(c)}) <= 1

\* C4: every tool-result message carries a call id issued by a tool-call
\* message earlier in the transcript, and the results of one round appear in
\* the order in which the backend requested the calls, whatever the order in
\* which the tools finished.
C4_ToolResultsFollowCalls ==
  \A i \in DOMAIN messages :
    messages[i].role = "tool" =>
      /\ \E j \in IssuesOf(messages[i].toolCallId) : j < i
      /\ \A k \in DOMAIN messages :
           (/\ k > i
            /\ messages[k].role = "tool"
            /\ RoundOf(messages[k].toolCallId) = RoundOf(messages[i].toolCallId))
             => IndexOf(messages[i].toolCallId) < IndexOf(messages[k].toolCallId)

\* C4 happens: the second tool of a round settled before the first one, and
\* both results are in the transcript
C4_Witness ==
  \E c \in Turns :
    /\ calls[c].doneOrder = <<2, 1>>
    /\ Len(calls[c].lastTools) = 2
    /\ \A k \in 1..2 : ResultsFor(calls[c].lastTools[k].id) # {}

\* the texts a failed tool call leaves in the transcript
ErrorTexts ==
  {"Error executing tool: Tool no_such_tool not implemented",
   "Error executing tool: Unexpected end of JSON input",
   "Error executing tool: Request failed"}

\* the tool call cannot succeed: unknown tool or unparsable arguments
MustFail(tc) ==
  tc.name \notin (toolFunction \cup {"human_agent_handoff"}) \/ ~JsonParses(tc.args)

\* C5: for every tool call of a resubmitted round exactly one tool-result
\* message with its id is in the transcript, success or failure; a failed
\* tool left a textual error; and while a round executes, every tool call of
\* the round has been started, whatever became of the others.
C5_EveryToolCallAnswered ==
  \A c \in Turns :
    /\ \A k \in DOMAIN calls[c].lastTools :
         LET tc == calls[c].lastTools[k]
         IN /\ Cardinality(ResultsFor(tc.id)) = 1
            /\ \A i \in ResultsFor(tc.id) :
                 /\ MustFail(tc) => messages[i].content \in ErrorTexts
                 /\ messages[i].content \notin ErrorTexts =>
                      messages[i].content \in
                        {handlerResult(tc.name),
                         "Handoff request initiated. Connecting you to a human agent."}
    /\ calls[c].pc = "tools" =>
         /\ Len(calls[c].results) = Len(calls[c].toolCalls)
         /\ \A i \in DOMAIN calls[c].results :
              MustFail(calls[c].toolCalls[i]) =>
                calls[c].results[i].text \in ErrorTexts

\* C5 happens: a round with an unknown tool and a tool that succeeded after
\* it has been resubmitted, and the turn goes on
C5_Witness ==
  \E c \in Turns :
    /\ InFlight(c)
    /\ Len(calls[c].lastTools) = 2
    /\ calls[c].lastTools[1].name = "no_such_tool"
    /\ calls[c].lastTools[2].name = "add_survey_response"
    /\ \E i \in ResultsFor(calls[c].lastTools[1].id) :
         messages[i].content \in ErrorTexts
    /\ \E i \in ResultsFor(calls[c].lastTools[2].id) :
         messages[i].content = "Survey response recorded successfully."

\* C6: within a turn the interrupted event and the final event
\* (streamChatCompletion:complete) exclude each other, and interrupted is
\* emitted at most once, whatever the adapter.
C6_InterruptedExcludesFinal ==
  \A c \in Turns :
    /\ Cardinality(EventsOf(c, "streamChatCompletion:interrupted")) <= 1
    /\ \/ EventsOf(c, "streamChatCompletion:interrupted") = {}
       \/ EventsOf(c, "streamChatCompletion:complete") = {}

\* C7: once an interruption has been signalled during a streaming turn of
\* the Chat Completions adapter (while it streams or while its tools execute),
\* no final event is emitted for that turn.  Stated for sessions in which no
\* other turn has been submitted.
C7_NoFinalAfterInterruption ==
  (provider = CC /\ \A d \in Turns : d > 1 => calls[d].pc = "idle") =>
    \A i \in EventsOf(1, "signal:interruption") :
      \A j \in EventsOf(1, "streamChatCompletion:complete") : j < i

\* C8: the interrupted event of a turn carries the concatenation, in order,
\* of the partial text chunks emitted so far in that turn (the empty string
\* if there were none), and the turn emits no final event.
C8_InterruptedCarriesPartials ==
  \A c \in Turns :
    \A i \in EventsOf(c, "streamChatCompletion:interrupted") :
      /\ calls[c].events[i].payload = PartialsBefore(c, i)
      /\ EventsOf(c, "streamChatCompletion:complete") = {}

\* C9: an interruption message supplied while a stream was active is
\* delivered to the next turn submitted: that turn appends it to the
\* transcript exactly once and the pending slot is empty afterwards.
C9_PendingMessageDelivered ==
  [][\A c \in Turns :
       (mode = "voice" /\ Submitted(c) /\ pendingWhileActive)
         => /\ interruptionMessage' = NoMsg
            /\ InterruptionMessagesIn(messages')
                 = InterruptionMessagesIn(messages) + 1]_vars

\* C10: when a submitted turn consumes the pending interruption message, the
\* message is placed in the transcript before every message submitted with
\* that turn, whatever the adapter.
C10_InterruptionMessageFirst ==
  [][\A c \in Turns :
       (/\ mode = "voice" /\ Submitted(c)
        /\ interruptionMessage # NoMsg /\ interruptionMessage' = NoMsg)
         => /\ Len(messages') = Len(messages) + 2
            /\ IsInterruptionMessage(messages'[Len(messages) + 1])
            /\ messages'[Len(messages) + 2] = UserMsg(c)]_vars

\* the step in which the adapter resubmits the transcript of turn c after a
\* tool round (it enters a recursion level and leaves the previous one)
Resubmitted(c) == calls[c].pc = "tools" /\ calls'[c].pc = "stream"

\* C11: while a streaming turn is inside a tool-call round, entering and
\* leaving a recursion level clears neither streamActive nor userInterrupted;
\* they are reset only when streamDepth returns to 0.
C11_RecursionKeepsFlags ==
  [][\A c \in Turns :
       (mode = "voice" /\ provider = CC /\ Resubmitted(c))
         => (streamDepth' > 0 /\ streamActive' = streamActive
             /\ userInterrupted' = userInterrupted)]_vars

\* positions of the final events of turn c, streaming or not
FinalsOf(c) ==
  EventsOf(c, "streamChatCompletion:complete") \cup EventsOf(c, "chatCompletion:complete")

\* turn c is over, was neither interrupted nor ended, and none of its backend
\* requests failed
CompletedUndisturbed(c) ==
  /\ calls[c].pc = "done"
  /\ ~calls[c].failed /\ ~calls[c].rejected
  /\ EventsOf(c, "signal:interruption") = {}
  /\ EventsOf(c, "streamChatCompletion:interrupted") = {}
  /\ EventsOf(c, "endInteraction") = {}

\* the backend streamed some text to turn c
GotText(c) ==
  \E i \in EventsOf(c, "streamChatCompletion:partial") :
    calls[c].events[i].payload # ""

\* C12: a turn that is not interrupted, not ended and whose backend requests
\* all succeed emits exactly one final event, whatever the number of tool
\* rounds and however the backend ends its output.  Stated for the turns to
\* which the backend streamed some text.
C12_ExactlyOneFinal ==
  \A c \in Turns :
    (CompletedUndisturbed(c) /\ GotText(c)) => Cardinality(FinalsOf(c)) = 1

\* the events turn c emits in a step
NewEvents(c) ==
  SubSeq(calls'[c].events, Len(calls[c].events) + 1, Len(calls'[c].events))

IsFinal(e) ==
  e.type \in {"streamChatCompletion:complete", "chatCompletion:complete"}

IsEndInteraction(e) == e.type = "endInteraction"

\* C13: when a turn emits its final event while shouldEndAfterStream is set,
\* the adapter emits exactly one endInteraction event with it and the flag is
\* false afterwards.
C13_EndAfterCompletion ==
  [][\A c \in Turns :
       (shouldEndAfterStream /\ SelectSeq(NewEvents(c), IsFinal) # <<>>)
         => /\ Len(SelectSeq(NewEvents(c), IsEndInteraction)) = 1
            /\ ~shouldEndAfterStream']_vars

\* C13 happens: a turn emitted its final event and endInteraction right after
\* it, and the flag is down
C13_Witness ==
  /\ ~shouldEndAfterStream
  /\ \E c \in Turns : \E i \in EventsOf(c, "endInteraction") :
       i > 1 /\ IsFinal(calls[c].events[i - 1])

\* C14: against a backend that answers every submission with a new tool
\* call, the tool-call loop of a turn stops at the cap of rounds instead of
\* resubmitting again.
C14_RoundsCapped ==
  \A c \in Turns : calls[c].rounds <= RoundCap

\* C15: if a backend request of a streaming turn fails (the first request or
\* a resubmission after a tool round), the turn emits no final event, and
\* once no turn is in flight streamActive is false and streamDepth is 0.
C15_FailedTurnHasNoFinal ==
  \A c \in Turns :
    (mode = "voice" /\ calls[c].failed) =>
      /\ EventsOf(c, "streamChatCompletion:complete") = {}
      /\ (\A d \in Turns : ~InFlight(d)) => (~streamActive /\ streamDepth = 0)

\* in the transcript msgs every tool result follows a message that issued its
\* call id, and every issued call id has its tool result
Paired(msgs) ==
  /\ \A i \in DOMAIN msgs :
       msgs[i].role = "tool" =>
         \E j \in 1..(i - 1) : \E k \in DOMAIN msgs[j].toolCalls :
           msgs[j].toolCalls[k].id = msgs[i].toolCallId
  /\ \A j \in DOMAIN msgs : \A k \in DOMAIN msgs[j].toolCalls :
       \E i \in (j + 1)..Len(msgs) :
         msgs[i].role = "tool" /\ msgs[i].toolCallId = msgs[j].toolCalls[k].id

\* C16: a backend failure does not corrupt the transcript: the step in which
\* a turn fails appends nothing (no partial assistant text), and if no turn
\* is in flight after it, the transcript has no tool call without its result
\* and no tool result without its call.
C16_FailureKeepsTranscript ==
  [][\A c \in Turns :
       (~calls[c].failed /\ calls'[c].failed)
         => /\ messages' = messages
            /\ (\A d \in Turns : calls'[d].pc \in {"idle", "done"})
                 => Paired(messages')]_vars

\* C16 happens: a turn that had streamed text and been through a tool round
\* failed, and no turn is in flight
C16_Witness ==
  /\ \A d \in Turns : ~InFlight(d)
  /\ \E c \in Turns :
       calls[c].failed /\ calls[c].rounds = 1 /\ GotText(c)


\* ------------------------------------------------ the controller's claims
\* the session held by webhook handler h, 0 before its registry lookup
HeldBy(h) == controller.inbound[h].llmService

\* no session of the conversation was dropped from the registry so far
NeverRemoved == controller.ended = {} /\ controller.evictions = 0

\* C17: as long as nothing was removed, the registry creates one session for
\* the conversation and calls setup once, and every handler that has looked
\* the session up holds that one instance, also when several inbound messages
\* of the unregistered conversation are processed concurrently.
C17_OneSessionPerConversation ==
  NeverRemoved =>
    /\ controller.created <= 1
    /\ \A s \in SessionIds : controller.setups[s] <= 1
    /\ \A g, h \in Inbound : HeldBy(g) # 0 /\ HeldBy(h) # 0 => HeldBy(g) = HeldBy(h)

\* C18: a session deleted by a participant-removed or conversation-removed
\* event has no turn in flight, so none of its turns sends a reply to the
\* conversation after the removal.
C18_RemovedSessionUnused ==
  \A h \in Inbound :
    controller.inbound[h].pc = "turn" => HeldBy(h) \notin controller.evicted

\* handler h performs its registry lookup in this step
Acquires(h) ==
  /\ controller.inbound[h].pc = "fetch"
  /\ controller'.inbound[h].pc \in {"setup", "turn"}

\* C19: the step in which a session first emits endInteraction leaves the
\* registry without an entry for the conversation, no later lookup returns a
\* session that has emitted endInteraction, and a lookup that finds no entry
\* creates a session no other handler holds, on which setup is called once.
C19_EndedSessionReplaced ==
  [][/\ \A s \in controller'.ended \ controller.ended : conversationSessions' = 0
     /\ \A s \in controller.ended : conversationSessions # s
     /\ \A h \in Inbound :
          Acquires(h) =>
            LET s == controller'.inbound[h].llmService
            IN /\ s \notin controller.ended
               /\ conversationSessions = 0 =>
                    /\ \A g \in Inbound : HeldBy(g) # s
                    /\ controller.setups[s] = 0
                    /\ controller'.setups[s] = 1]_vars

\* a session has ended the conversation and a later message runs its turn on
\* a new, registered session
C19_Witness ==
  \E h \in Inbound :
    /\ controller.ended # {}
    /\ controller.inbound[h].pc = "turn"
    /\ HeldBy(h) \notin controller.ended
    /\ \A s \in controller.ended : HeldBy(h) > s
    /\ conversationSessions = HeldBy(h)
    /\ controller.setups[HeldBy(h)] = 1

\* ------------------------------------------------------------ the handoff
\* C20: a turn emits humanAgentHandoff at most once.
C20_HandoffAtMostOnce ==
  \A c \in Turns : Cardinality(EventsOf(c, "humanAgentHandoff")) <= 1


\* --------------------------------------------------------- the tool rounds
\* positions of the transcript entries that record tool calls
ToolCallMessagesIn(msgs) == {i \in DOMAIN msgs : msgs[i].toolCalls # <<>>}

\* no turn but the first has been submitted
Alone == \A d \in Turns : d > 1 => calls[d].pc = "idle"

\* the transcript after setup and the submission of the first user message
Base == InitialMessages(provider) \o <<Msg("system", "Call Context"), UserMsg(1)>>

\* the first turn of a messaging session went through one tool round and then
\* got the final text
SyncRoundDone ==
  /\ mode = "messaging" /\ provider \in {CC, RS} /\ Alone
  /\ calls[1].pc = "done" /\ ~calls[1].failed /\ calls[1].rounds = 1

\* C21 as stated: such a turn leaves exactly one tool-call message in the
\* transcript, whatever the adapter and the number of calls.
C21_OneToolCallMessage ==
  SyncRoundDone => Cardinality(ToolCallMessagesIn(messages)) = 1

\* C21, amended: such a turn emits exactly one chatCompletion:complete event,
\* carrying the final text, and appends after the user message the record of
\* the tool calls (Chat Completions: one assistant message listing all calls;
\* Responses: one function_call item per call), then one tool result per call
\* in the order of the calls, then the final assistant message.
C21_ToolRoundTranscript ==
  SyncRoundDone =>
    LET n == Len(calls[1].lastTools)
        b == Len(Base)
        t == IF provider = CC THEN 1 ELSE n
    IN /\ \A i \in DOMAIN calls[1].events :
            IsFinal(calls[1].events[i]) =>
              calls[1].events[i] = Ev("chatCompletion:complete", FinalText)
       /\ Cardinality(FinalsOf(1)) = 1
       /\ Len(messages) = b + t + n + 1
       /\ SubSeq(messages, 1, b) = Base
       /\ IF provider = CC
            THEN messages[b + 1] = AssistantToolCalls(Null, calls[1].lastTools)
            ELSE \A k \in 1..n : messages[b + k] = FunctionCall(calls[1].lastTools[k])
       /\ \A k \in 1..n :
            /\ messages[b + t + k].role = "tool"
            /\ messages[b + t + k].toolCallId = calls[1].lastTools[k].id
       /\ messages[b + t + n + 1] = Msg("assistant", FinalText)

\* C21 happens: a Responses turn with two tool calls in its round is done
C21_Witness ==
  SyncRoundDone /\ provider = RS /\ Len(calls[1].lastTools) = 2


\* the step in which turn c resubmits the transcript after a tool round
RoundResubmitted(c) == calls'[c].rounds = calls[c].rounds + 1

\* the transcript entries appended in a step
NewMessages == SubSeq(messages', Len(messages) + 1, Len(messages'))

\* C22: when a streaming turn of the Chat Completions adapter resubmits after
\* a backend response with n >= 1 tool calls (and no interruption message is
\* pending), it has appended exactly one assistant tool-call message listing
\* the n calls, followed by the n tool results.
C22_OneToolCallMessagePerRound ==
  [][\A c \in Turns :
       (/\ mode = "voice" /\ provider = CC
        /\ RoundResubmitted(c) /\ interruptionMessage = NoMsg)
         => LET n == Len(calls[c].toolCalls)
            IN /\ Len(NewMessages) = n + 1
               /\ NewMessages[1].role = "assistant"
               /\ NewMessages[1].toolCalls = calls[c].toolCalls
               /\ \A k \in 1..n :
                    /\ NewMessages[k + 1].role = "tool"
                    /\ NewMessages[k + 1].toolCallId = calls[c].toolCalls[k].id]_vars


\* C23: while the interruption flag is up during a round that a streaming
\* turn resubmitted after its tool calls, the turn emits no final event: the
\* round is stopped at its next chunk boundary.
C23_PostToolRoundInterruptible ==
  [][\A c \in Turns :
       (/\ mode = "voice" /\ userInterrupted
        /\ InFlight(c) /\ calls[c].rounds >= 1)
         => SelectSeq(NewEvents(c), IsFinal) = <<>>]_vars


\* ------------------------------------------------------ the tool dispatch
\* C24: for every tool call of a round that was executed, the handler was
\* invoked only if the arguments parse and satisfy the tool's schema, and a
\* call whose arguments do not was answered with an error result.
C24_HandlerGetsValidArguments ==
  \A c \in Turns : \A k \in DOMAIN calls[c].lastTools :
    LET tc == calls[c].lastTools[k]
    IN /\ executeToolCallStart(tc).invoked => SatisfiesSchema(tc)
       /\ (tc.name \in toolFunction /\ ~SatisfiesSchema(tc)) =>
            \A i \in ResultsFor(tc.id) : messages[i].content \in ErrorTexts


\* ------------------------------------------------ services side by side
\* the keys the next backend request of service s may be sent with
CredentialsOf(s) ==
  IF services.instances[s].provider = AG
    THEN {services.env} \cup ({services.sdkKey} \ {NoKey})
    ELSE {services.instances[s].openaiKey}

\* C25: an operation on one service (creation with its own API key, setup, a
\* turn, an interruption, removal) leaves the transcript and the flags of
\* every other service and the credentials of every other live service
\* unchanged.
C25_SessionsIsolated ==
  [][\A s, t \in Services :
       (s # t /\ services'.instances[t] # services.instances[t])
         => /\ services'.instances[s] = services.instances[s]
            /\ services.instances[s].state = "live" =>
                 CredentialsOf(s)' = CredentialsOf(s)]_vars


\* ------------------------------------------------------- the stream flags
\* C26: between any two steps of any operation streamDepth is not negative
\* and streamActive is true exactly when streamDepth >= 1, so the state
\* "streamActive and streamDepth = 0" that the guard of streamChatCompletion
\* tests for does not occur.
C26_ActiveIffDepth ==
  /\ streamDepth >= 0
  /\ streamActive <=> streamDepth >= 1
  /\ ~streamAlreadyActive(Sess)

\* C26 happens: a second call was submitted while a stream was active, both
\* are in flight, and an earlier turn has left through its finally block
C26_Witness ==
  /\ streamActive /\ streamDepth = 2
  /\ \E c, d \in Turns : c # d /\ InFlight(c) /\ InFlight(d)


\* -------------------------------------------------- interrupted rounds
IsInterrupted(e) == e.type = "streamChatCompletion:interrupted"

\* C27: the step in which a streaming round is interrupted (the turn emits
\* its interrupted event) appends no assistant message to the transcript,
\* whatever the adapter.
C27_InterruptedRoundAppendsNothing ==
  [][\A c \in Turns :
       SelectSeq(NewEvents(c), IsInterrupted) # <<>>
         => \A i \in DOMAIN NewMessages : NewMessages[i].role # "assistant"]_vars


\* ------------------------------------------------- the end of the session
\* turn c ran the add_survey_response tool in its tool round
RanSurveyTool(c) ==
  \E k \in DOMAIN calls[c].lastTools :
    calls[c].lastTools[k].name = "add_survey_response"

\* C28: a turn of the Chat Completions or Responses adapter emits
\* endInteraction only if the add_survey_response tool ran during that turn,
\* and a turn submitted while no other turn is in flight starts with the
\* end-after-turn flag down: a flag raised in an earlier turn that was
\* interrupted or failed is not carried into a later, unrelated turn.
C28_EndOnlyInFlaggingTurn ==
  [][\A c \in Turns :
       provider \in {CC, RS} =>
         /\ (Submitted(c) /\ \A d \in Turns : ~InFlight(d))
              => ~shouldEndAfterStream
         /\ (SelectSeq(NewEvents(c), IsEndInteraction) # <<>>
             /\ \A d \in Turns : d # c => ~InFlight(d))
              => RanSurveyTool(c)]_vars


\* ------------------------------------------------- what a dispatch changes
IsToolError(e) == e.type = "toolCall:error"

\* in this step tools of turn c were dispatched or settled and the round is
\* not over (Responses records the function_call items in the step that
\* starts the round, so only the later steps count there)
Dispatched(c) ==
  /\ calls'[c].pc = "tools"
  /\ calls'[c].results # calls[c].results
  /\ provider = CC \/ calls[c].pc = "tools"

\* in this step the handler of a pending add_survey_response call of turn c
\* returned without an error
SurveySucceeded(c) ==
  /\ calls[c].pc = "tools"
  /\ \E i \in DOMAIN calls[c].results :
       /\ calls[c].results[i].status = "pending"
       /\ calls[c].toolCalls[i].name = "add_survey_response"
  /\ SelectSeq(NewEvents(c), IsToolError) = <<>>

\* the contents of the tool-result messages that answer call id
ResultTexts(id) == {messages[i].content : i \in ResultsFor(id)}

IsStreamComplete(e) == e.type = "streamChatCompletion:complete"

\* C30: for a streaming turn that completes naturally, the payloads of the
\* final round's partial events, concatenated in order and followed by the
\* payload of the complete event, are the assistant message appended for
\* that round, in every adapter.  Stated at the step that emits the complete
\* event, for a round that is the first of its turn and asked for no tool,
\* so that the partial events of the round are those of the turn.
C30_PartialsThenCompleteIsMessage ==
  [][\A c \in Turns :
       LET complete == SelectSeq(NewEvents(c), IsStreamComplete)
           n == Len(calls[c].events) + 1
       IN (/\ complete # <<>>
           /\ calls[c].rounds = 0 /\ calls[c].toolCalls = <<>>
           /\ SelectSeq(calls'[c].events, IsInterrupted) = <<>>)
            => /\ Len(messages') = Len(messages) + 1
               /\ messages'[Len(messages')].role = "assistant"
               /\ PartialsBefore(c, n) \o complete[1].payload
                    = messages'[Len(messages')].content]_vars


\* ------------------------------------------ a turn whose first request fails
\* the transcript before the first turn is submitted
BeforeFirstTurn == InitialMessages(provider) \o <<Msg("system", "Call Context")>>

\* C31: if the first backend request of a turn fails, the transcript after
\* the failure is the transcript before the turn was submitted.  Stated for
\* the first turn of a session, failing before any chunk or tool round, with
\* no other turn submitted.
C31_FailedTurnLeavesNoTrace ==
  [][(/\ Alone' /\ ~calls[1].failed /\ calls'[1].failed
      /\ calls[1].rounds = 0 /\ calls[1].chunks = 0 /\ calls[1].toolCalls = <<>>)
       => messages' = BeforeFirstTurn]_vars


\* ------------------------------------------- whose entry endInteraction deletes
\* in this step the endInteraction listener of session s ran for the first time
EndInteractionFired(s) == s \notin controller.ended /\ s \in controller'.ended

\* C36: an endInteraction event removes from the registry only the session
\* that emitted it: when that session has been evicted and a session created
\* after it is registered under the conversation id, the entry stays.
C36_EndRemovesOwnEntryOnly ==
  [][\A s \in SessionIds :
       (EndInteractionFired(s) /\ s \in controller.evicted
        /\ conversationSessions > s)
         => conversationSessions' = conversationSessions]_vars


\* ------------------------------------------------ the bot's own messages
\* C32: an inbound message whose author is the author the bot posts its own
\* replies with creates no session and starts no LLM turn.
C32_OwnMessagesIgnored ==
  \A h \in Inbound :
    controller.inbound[h].author = BotAuthor
      => controller.inbound[h].pc \notin {"setup", "turn"}


\* ------------------------------------------------ one listener per session
\* C33: the event handlers are registered once per session: every
\* chatCompletion:complete event makes the controller send exactly one reply
\* to the conversation, and every humanAgentHandoff event runs the handoff
\* listener exactly once, whatever the number of messages the session has
\* received.
C33_OneReplyPerCompleteEvent ==
  [][/\ controller'.completes = controller.completes + 1
          => Len(controller'.sent) = Len(controller.sent) + 1
     /\ controller'.handoffEvents = controller.handoffEvents + 1
          => controller'.handoffsHandled = controller.handoffsHandled + 1]_vars

\* C33 happens: a session has answered two messages and a handoff event has
\* been handled
C33_Witness ==
  /\ controller.handoffEvents >= 1
  /\ \E i, j \in DOMAIN controller.sent :
       i # j /\ controller.sent[i] = controller.sent[j]


\* ------------------------------------------------- handing off once only
\* C34: a conversation is handed off at most once: whatever the number and
\* the interleaving of the humanAgentHandoff events, at most one Flex
\* interaction is created.
C34_AtMostOneInteraction == handoff.interactions <= 1

\* in the run of listener p removeBotWebhooks caught an error
WebhookErrorIn(p) == handoff.listeners[p].webhookError

\* C35: an error while listing or removing the bot's webhooks does not end the
\* handoff: the run goes on to the attribute update, and when the update goes
\* through, the conversation is marked handedOff with the interaction id of
\* the run.  If creating the interaction fails, the run ends at once: it
\* removes no webhook and does not mark the conversation; nothing is removed
\* or marked before some run has created an interaction.
C35_WebhookErrorsDoNotAbort ==
  [][/\ \A p \in HandoffListeners :
          LET l == handoff.listeners[p]
              m == handoff'.listeners[p]
          IN /\ (~l.webhookError /\ m.webhookError) => m.pc = "attrs"
             /\ m.webhookError => m.error \in {"none", "attrs", "update"}
             /\ (l.pc = "update" /\ m.pc = "done")
                  => /\ handoff'.attributes.handedOff
                     /\ handoff'.attributes.interactionSid = l.interaction
                     /\ l.interaction # 0
             /\ m.error = "create"
                  => /\ m.pc = "failed" /\ m.removed = 0 /\ ~m.marked
                     /\ m.interaction = 0
             /\ (l.pc = "create" /\ m.error = "create")
                  => /\ handoff'.webhooks = handoff.webhooks
                     /\ handoff'.attributes = handoff.attributes
                     /\ handoff'.interactions = handoff.interactions
     /\ handoff.interactions = 0
          => /\ ~handoff.attributes.handedOff
             /\ BotWebhook \in handoff.webhooks]_vars

\* C35 happens: a run whose webhook listing or removal failed has marked the
\* conversation, and another run ended when creating the interaction failed
C35_Witness ==
  \E p, q \in HandoffListeners :
    /\ WebhookErrorIn(p) /\ handoff.listeners[p].pc = "done"
    /\ handoff.attributes.handedOff
    /\ handoff.listeners[q].error = "create"


\* ------------------------------------------------------ withRetry's attempts
\* every attempt so far failed with an error that isRetryableError accepts
AllRetryable ==
  \A i \in DOMAIN retry.errors :
    isRetryableError(retry.errors[i], retry.opts.retryableErrors)

\* C37: withRetry invokes the operation at most maxRetries + 1 times; after
\* the first successful attempt it returns and invokes nothing more; when
\* every attempt fails with a retryable error it throws the error of the last
\* attempt after exactly maxRetries waits.
C37_AttemptsBounded ==
  [][/\ retry.invocations <= retry.opts.maxRetries + 1
     /\ retry.pc = "returned"
          => /\ retry.invocations = Len(retry.errors) + 1
             /\ retry'.invocations = retry.invocations
     /\ (retry'.pc = "threw" /\ AllRetryable')
          => /\ retry'.thrown = retry'.errors[Len(retry'.errors)]
             /\ retry'.invocations = retry.opts.maxRetries + 1
             /\ Len(retry'.waits) = retry.opts.maxRetries]_vars

\* C37 happens: with maxRetries = 2 three attempts failed with retryable
\* errors and withRetry threw after two waits
C37_Witness ==
  /\ retry.pc = "threw" /\ AllRetryable
  /\ retry.opts.maxRetries = 2 /\ Len(retry.errors) = 3 /\ Len(retry.waits) = 2

\* the errors of the model that none of the four tests of isRetryableError
\* accepts: HTTP 404 and 400
NotRetryable(error) == error.status \in {400, 404}

\* C38: when an attempt fails with an error that is not retryable, withRetry
\* rethrows that error at once: it neither waits nor invokes the operation
\* again, whatever the number of retries left.
C38_NotRetryableRethrown ==
  [][/\ (Len(retry'.errors) = Len(retry.errors) + 1
         /\ NotRetryable(retry'.errors[Len(retry'.errors)]))
          => /\ retry'.pc = "threw"
             /\ retry'.thrown = retry'.errors[Len(retry'.errors)]
             /\ retry'.waits = retry.waits
             /\ retry'.invocations = retry.invocations
     /\ retry.pc = "threw"
          => (retry'.invocations = retry.invocations /\ retry'.waits = retry.waits)]_vars

\* C38 happens: the second attempt failed with HTTP 404 while retries were
\* left, and withRetry threw it
C38_Witness ==
  /\ retry.pc = "threw" /\ retry.thrown.status = 404
  /\ Len(retry.errors) = 2 /\ Len(retry.waits) = 1
  /\ retry.attempt <= retry.opts.maxRetries

RECURSIVE Power(_, _)
Power(b, n) == IF n = 0 THEN 1 ELSE b * Power(b, n - 1)

\* C39: the k-th wait of withRetry is
\* min(initialDelayMs * backoffMultiplier^(k-1), maxDelayMs), so that the
\* waits never decrease and none exceeds maxDelayMs, for every combination of
\* option values.
C39_WaitsFollowCappedBackoff ==
  \A k \in DOMAIN retry.waits :
    /\ retry.waits[k] =
         Min(retry.opts.initialDelayMs * Power(retry.opts.backoffMultiplier, k - 1),
             retry.opts.maxDelayMs)
    /\ retry.waits[k] <= retry.opts.maxDelayMs
    /\ k > 1 => retry.waits[k - 1] <= retry.waits[k]

====
